---- MODULE Spec2Model ----
(***************************************************************************)
(* Verification model of the vitrinealu-marketing orchestration layer:     *)
(*   - services/media_ingest: MediaPipeline (process_file, process_batch), *)
(*     ProcessedDatabase, CurationEngine (duplicate index, curation gate)  *)
(*   - services/background-service: TokenBucketLimiter, main._consume_token*)
(*     and the /background/replace handler with the SDXL generator cache.  *)
(*   - services/background-service: RunwayAdapter._poll_task_status        *)
(*   - services/enhance: EnhancePipeline.execute                           *)
(* The specifications of the module: Spec (ingest pipeline), SpecLimiter   *)
(* (limits.py token bucket), SpecService (main.py handler), SpecPoll and   *)
(* SpecPollLive (runway polling), SpecCuration (direct CurationEngine      *)
(* calls), SpecEnhance (enhance pipeline), SpecThreads (concurrent         *)
(* TokenBucketLimiter.acquire), SpecClient (BackgroundClient).             *)
(***************************************************************************)
EXTENDS Integers, Sequences, FiniteSets, TLC

VARIABLES
    \* ---- media_ingest ----
    face_blur_enabled,  \* config.face_blur_enabled
    ledger,             \* ProcessedDatabase table "processed": sha256 -> row
    marked,             \* history: hashes for which mark_processed completed
    seen_hashes,        \* CurationEngine.seen_hashes
    disk,               \* output files on disk: output path -> content written
    sidecars,           \* sidecar JSON files on disk (output path without suffix)
    tasks,              \* every process_file call made so far, with its position
    batch,              \* the process_batch call in progress (or finished)
    cur,                \* history: the last direct call of a CurationEngine method
    \* ---- background-service ----
    now,                \* the clock read by time.monotonic() / time.time(), in seconds
    lim,                \* limits.py: a TokenBucketLimiter instance
    limLast,            \* history: the last acquire call and the burst since a full bucket
    bucket,             \* main.py: BG_REQS_PER_MIN, _bucket_tokens, _bucket_last
    bucketLast,         \* history: the last direct _consume_token call
    env,                \* main.py: settings.bg_engine, ALLOW_4K, BG_FALLBACK_LOCAL
    sdxl_cache,         \* generate.py: SDXLGenerator._cache
    svcLog,             \* history: the /background requests answered so far
    poll,               \* runway_adapter.py: the _poll_task_status call in progress
    acq,                \* limits.py: threads inside TokenBucketLimiter.acquire, and its lock
    \* ---- enhance ----
    enh,                \* enhance/app/pipelines/enhance.py: the execute call in progress
    \* ---- media_ingest background client ----
    bgc                 \* background_client.py: the _make_request call in progress

ingestVars == <<face_blur_enabled, ledger, marked, seen_hashes, disk, sidecars, tasks, batch>>
limVars == <<now, lim, limLast, bucket, bucketLast>>
svcVars == <<env, sdxl_cache, svcLog>>
pollVars == <<poll>>
enhVars == <<enh>>
curVars == <<cur>>
acqVars == <<acq>>
clientVars == <<bgc>>
vars == <<ingestVars, limVars, svcVars, pollVars, enhVars, curVars, acqVars, clientVars>>

(***************************************************************************)
(* Bounds of the model                                                     *)
(***************************************************************************)
MaxCalls == 2       \* process_file calls (direct or through a batch) per run
MaxBatch == 2       \* longest file_paths list handed to process_batch
MaxWorkers == 2     \* max_workers handed to process_batch
MaxCapacity == 2    \* largest requests-per-minute setting explored
MaxTime == 90       \* the clock stops advancing at this many seconds
MaxRequests == 3    \* /background requests per run

(***************************************************************************)
(* Input files.  A path has a stem, a suffix and bytes; the perceptual     *)
(* hash and the scores are functions of the bytes.                         *)
(***************************************************************************)
Paths == {"p1", "p2", "p3", "p4", "p5"}
Sources == {"nas"}

\* bytes of each input file: p1 and p5 are two files with identical bytes
ContentOf(p) ==
    CASE p = "p1" -> "c1"
      [] p = "p2" -> "c2"
      [] p = "p3" -> "c3"
      [] p = "p4" -> "c4"
      [] p = "p5" -> "c1"

\* Path.stem as a sequence of characters
StemOf(p) ==
    CASE p = "p1" -> <<"a">>
      [] p = "p2" -> <<"b", " ">>
      [] p = "p3" -> <<"a", "!">>
      [] p = "p4" -> <<"a">>
      [] p = "p5" -> <<"e">>

\* Path.suffix
SuffixOf(p) == IF p = "p2" THEN ".png" ELSE ".jpg"

\* str(dhash(image)): a hex string, here two hex digits.  c2 and c3 are
\* within the Hamming threshold of c1; c4 is not
PHashOf(c) ==
    CASE c = "c1" -> <<"0", "0">>
      [] c = "c2" -> <<"0", "7">>
      [] c = "c3" -> <<"1", "0">>
      [] c = "c4" -> <<"f", "f">>

\* score_image(path): aesthetic and exposure in tenths, sharpness in units.
\* c3 is below the aesthetic threshold; c4 sits exactly on every threshold
ScoresOf(c) ==
    CASE c = "c1" -> [aesthetic |-> 8, sharpness |-> 200, exposure |-> 7]
      [] c = "c2" -> [aesthetic |-> 8, sharpness |-> 300, exposure |-> 7]
      [] c = "c3" -> [aesthetic |-> 1, sharpness |-> 200, exposure |-> 7]
      [] c = "c4" -> [aesthetic |-> 5, sharpness |-> 100, exposure |-> 3]

\* hashlib.sha256 of the bytes: injective on the contents of the model
compute_sha256(p) == <<"sha256", ContentOf(p)>>

(***************************************************************************)
(* CurationEngine (media_ingest/curation.py)                               *)
(***************************************************************************)
duplicate_hamming_threshold == 5
aesthetic_threshold_tenths == 5
sharpness_threshold == 100
exposure_floor_tenths == 3

HexVal(ch) ==
    CASE ch = "0" -> 0 [] ch = "1" -> 1 [] ch = "2" -> 2 [] ch = "3" -> 3
      [] ch = "4" -> 4 [] ch = "5" -> 5 [] ch = "6" -> 6 [] ch = "7" -> 7
      [] ch = "8" -> 8 [] ch = "9" -> 9 [] ch = "a" -> 10 [] ch = "b" -> 11
      [] ch = "c" -> 12 [] ch = "d" -> 13 [] ch = "e" -> 14 [] ch = "f" -> 15

\* int(hash, 16)
RECURSIVE HexToInt(_)
HexToInt(h) ==
    IF h = <<>> THEN 0
    ELSE 16 * HexToInt(SubSeq(h, 1, Len(h) - 1)) + HexVal(h[Len(h)])

\* bin(h1 ^ h2).count('1')
RECURSIVE HammingDistance(_, _)
HammingDistance(a, b) ==
    IF a = 0 /\ b = 0 THEN 0
    ELSE (IF a % 2 # b % 2 THEN 1 ELSE 0) + HammingDistance(a \div 2, b \div 2)

is_duplicate(hash1, hash2) ==
    HammingDistance(HexToInt(hash1), HexToInt(hash2)) <= duplicate_hamming_threshold

\* the scan of check_duplicate: some seen hash is within the threshold
ScanFindsDuplicate(image_hash, seen) ==
    \E seen_hash \in seen : is_duplicate(image_hash, seen_hash)

\* mutant: an aesthetic score equal to the threshold is rejected
should_keep_imageInclusive(scores) ==
    LET r1 == IF scores.aesthetic <= aesthetic_threshold_tenths THEN <<"aesthetic">> ELSE <<>>
        r2 == IF scores.sharpness < sharpness_threshold THEN <<"sharpness">> ELSE <<>>
        r3 == IF scores.exposure < exposure_floor_tenths THEN <<"exposure">> ELSE <<>>
        reasons == r1 \o r2 \o r3
    IN  <<Len(reasons) = 0, reasons>>

\* should_keep_image: <<kept, reasons>>
should_keep_image(scores) ==
    LET r1 == IF scores.aesthetic < aesthetic_threshold_tenths THEN <<"aesthetic">> ELSE <<>>
        r2 == IF scores.sharpness < sharpness_threshold THEN <<"sharpness">> ELSE <<>>
        r3 == IF scores.exposure < exposure_floor_tenths THEN <<"exposure">> ELSE <<>>
        reasons == r1 \o r2 \o r3
    IN  <<Len(reasons) = 0, reasons>>

(***************************************************************************)
(* ProcessedDatabase (media_ingest/pipeline.py)                            *)
(***************************************************************************)
is_processed(table, sha256) == sha256 \in DOMAIN table

\* mutant: the insert replaces the whole table by the new row
mark_processedTruncates(table, sha256, source_path, output_path, source) ==
    [h \in {sha256} |->
        [source_path |-> source_path, output_path |-> output_path, source |-> source]]

\* INSERT OR REPLACE INTO processed VALUES (sha256, source_path, output_path, now, source)
mark_processed(table, sha256, source_path, output_path, source) ==
    [h \in (DOMAIN table) \cup {sha256} |->
        IF h = sha256
        THEN [source_path |-> source_path, output_path |-> output_path, source |-> source]
        ELSE table[h]]

(***************************************************************************)
(* MediaPipeline.generate_output_path                                      *)
(***************************************************************************)
NoPath == [dir |-> <<>>, name |-> <<>>, ext |-> ""]

IsAlnum(ch) == ch \in {"a", "b", "e", "1", "2", "3"}

RECURSIVE KeepSlugChars(_)
KeepSlugChars(stem) ==
    IF stem = <<>> THEN <<>>
    ELSE (IF IsAlnum(Head(stem)) \/ Head(stem) \in {" ", "-", "_"}
          THEN <<Head(stem)>> ELSE <<>>) \o KeepSlugChars(Tail(stem))

RECURSIVE RStrip(_)
RStrip(s) ==
    IF s # <<>> /\ s[Len(s)] = " " THEN RStrip(SubSeq(s, 1, Len(s) - 1)) ELSE s

Slug(stem) ==
    LET slug == RStrip(KeepSlugChars(stem))
    IN  IF slug = <<>> THEN <<"i", "m", "a", "g", "e">> ELSE slug

\* the "while base_path.exists()" loop, from counter on
RECURSIVE FindUnique(_, _, _, _, _)
FindUnique(dir, stem, ext, counter, existing) ==
    LET base_path == [dir |-> dir, name |-> stem \o <<"_", ToString(counter)>>, ext |-> ext]
    IN  IF base_path \in existing
        THEN FindUnique(dir, stem, ext, counter + 1, existing)
        ELSE base_path

generate_output_path(p, existing) ==
    LET dir == Slug(StemOf(p))
        base_path == [dir |-> dir, name |-> StemOf(p), ext |-> SuffixOf(p)]
    IN  IF base_path \in existing
        THEN FindUnique(dir, StemOf(p), SuffixOf(p), 1, existing)
        ELSE base_path

\* output_path.with_suffix('.json')
SidecarOf(output_path) == [dir |-> output_path.dir, name |-> output_path.name, ext |-> ".json"]

(***************************************************************************)
(* MediaPipeline.process_file, one action per numbered step of the code.   *)
(* A task is one call of process_file; a step that raises goes to the      *)
(* "except Exception" handler of the call.                                 *)
(***************************************************************************)
TaskIds == 1..Len(tasks)

NewTask(p, source, via, pc) ==
    [path |-> p, source |-> source, via |-> via, pc |-> pc,
     out |-> NoPath, result |-> [kind |-> "pending", path |-> NoPath], raised |-> "none",
     saved |-> FALSE]

Running(t) == t.pc \notin {"queued", "done"}
AllQuiet == (\A i \in TaskIds : tasks[i].pc = "done") /\ batch.state # "running"

\* return None (a skip: already processed, duplicate, rejected)
ReturnNone(t) == [t EXCEPT !.pc = "done", !.result = [kind |-> "None", path |-> NoPath]]

\* mutant: the exception leaves process_file
ExceptHandlerPropagates(t, e) ==
    [t EXCEPT !.pc = "done", !.result = [kind |-> "exception", path |-> NoPath], !.raised = e]

\* except Exception as e: print(...); return None
ExceptHandler(t, e) ==
    [t EXCEPT !.pc = "done", !.result = [kind |-> "None", path |-> NoPath], !.raised = e]

\* return output_path
ReturnPath(t) == [t EXCEPT !.pc = "done", !.result = [kind |-> "path", path |-> t.out]]

Goto(t, pc) == [t EXCEPT !.pc = pc]

\* a direct call of pipeline.process_file(path, source)
CallProcessFile(p, source) ==
    /\ AllQuiet
    /\ Len(tasks) < MaxCalls
    /\ tasks' = Append(tasks, NewTask(p, source, "direct", "hash"))
    /\ UNCHANGED <<face_blur_enabled, ledger, marked, seen_hashes, disk, sidecars, batch>>
    /\ UNCHANGED <<limVars, svcVars, pollVars, enhVars, curVars, acqVars, clientVars>>

LocalStep(i, t) ==
    /\ tasks' = [tasks EXCEPT ![i] = t]
    /\ UNCHANGED <<face_blur_enabled, ledger, marked, seen_hashes, disk, sidecars, batch>>
    /\ UNCHANGED <<limVars, svcVars, pollVars, enhVars, curVars, acqVars, clientVars>>

\* 1. compute_sha256, is_processed
StepHash(i) ==
    /\ tasks[i].pc = "hash"
    /\ \E ok \in BOOLEAN :
         LocalStep(i, IF ~ok THEN ExceptHandler(tasks[i], "Exception")
                      ELSE IF is_processed(ledger, compute_sha256(tasks[i].path))
                           THEN ReturnNone(tasks[i])
                           ELSE Goto(tasks[i], "load"))

\* 2. Image.open, cv2.imread
StepLoad(i) ==
    /\ tasks[i].pc = "load"
    /\ \E ok \in BOOLEAN :
         LocalStep(i, IF ok THEN Goto(tasks[i], "dup_scan") ELSE ExceptHandler(tasks[i], "Exception"))

\* 3. compute_perceptual_hash and the scan loop of check_duplicate
StepDupScan(i) ==
    /\ tasks[i].pc = "dup_scan"
    /\ \E ok \in BOOLEAN :
         LocalStep(i, IF ~ok THEN ExceptHandler(tasks[i], "Exception")
                      ELSE IF ScanFindsDuplicate(PHashOf(ContentOf(tasks[i].path)), seen_hashes)
                           THEN ReturnNone(tasks[i])
                           ELSE Goto(tasks[i], "dup_add"))

\* 3. check_duplicate: self.seen_hashes.add(image_hash); return False
StepDupAdd(i) ==
    /\ tasks[i].pc = "dup_add"
    /\ seen_hashes' = seen_hashes \cup {PHashOf(ContentOf(tasks[i].path))}
    /\ tasks' = [tasks EXCEPT ![i] = Goto(tasks[i], "score")]
    /\ UNCHANGED <<face_blur_enabled, ledger, marked, disk, sidecars, batch>>
    /\ UNCHANGED <<limVars, svcVars, pollVars, enhVars, curVars, acqVars, clientVars>>

\* mutant: the verdict of should_keep_image is not consulted
StepScoreIgnoresVerdict(i) ==
    /\ tasks[i].pc = "score"
    /\ \E ok \in BOOLEAN :
         LocalStep(i, IF ~ok THEN ExceptHandler(tasks[i], "Exception")
                      ELSE Goto(tasks[i], "enhance"))

\* 4. score_image, should_keep_image
StepScore(i) ==
    /\ tasks[i].pc = "score"
    /\ \E ok \in BOOLEAN :
         LocalStep(i, IF ~ok THEN ExceptHandler(tasks[i], "Exception")
                      ELSE IF should_keep_image(ScoresOf(ContentOf(tasks[i].path)))[1]
                           THEN Goto(tasks[i], "enhance")
                           ELSE ReturnNone(tasks[i]))

\* 5. enhancer.process_image
StepEnhance(i) ==
    /\ tasks[i].pc = "enhance"
    /\ \E ok \in BOOLEAN :
         LocalStep(i, IF ok THEN Goto(tasks[i], "watermark") ELSE ExceptHandler(tasks[i], "Exception"))

\* 6. watermark_applier.apply_watermark
StepWatermark(i) ==
    /\ tasks[i].pc = "watermark"
    /\ \E ok \in BOOLEAN :
         LocalStep(i, IF ok THEN Goto(tasks[i], "face_blur") ELSE ExceptHandler(tasks[i], "Exception"))

\* 7. if config.face_blur_enabled: np.array(...) -- pipeline.py never imports
\* numpy, so the branch raises NameError before face_blurrer is reached
StepFaceBlur(i) ==
    /\ tasks[i].pc = "face_blur"
    /\ LocalStep(i, IF face_blur_enabled THEN ExceptHandler(tasks[i], "NameError")
                    ELSE Goto(tasks[i], "save_path"))

\* 8. output_path = self.generate_output_path(input_path, scores)
StepOutputPath(i) ==
    /\ tasks[i].pc = "save_path"
    /\ \E ok \in BOOLEAN :
         LocalStep(i, IF ok
                      THEN [tasks[i] EXCEPT !.pc = "save",
                                            !.out = generate_output_path(tasks[i].path, DOMAIN disk)]
                      ELSE ExceptHandler(tasks[i], "Exception"))

\* 8. final_pil.save(output_path, quality=95)
StepSave(i) ==
    /\ tasks[i].pc = "save"
    /\ \E ok \in BOOLEAN :
         IF ok
         THEN /\ disk' = [q \in (DOMAIN disk) \cup {tasks[i].out} |->
                            IF q = tasks[i].out THEN ContentOf(tasks[i].path) ELSE disk[q]]
              /\ tasks' = [tasks EXCEPT ![i] = [Goto(tasks[i], "sidecar") EXCEPT !.saved = TRUE]]
         ELSE /\ disk' = disk
              /\ tasks' = [tasks EXCEPT ![i] = ExceptHandler(tasks[i], "Exception")]
    /\ UNCHANGED <<face_blur_enabled, ledger, marked, seen_hashes, sidecars, batch>>
    /\ UNCHANGED <<limVars, svcVars, pollVars, enhVars, curVars, acqVars, clientVars>>

\* mutant: the sidecar is not written before the ledger insert
StepSidecarSkips(i) ==
    /\ tasks[i].pc = "sidecar"
    /\ \E ok \in BOOLEAN :
         IF ok
         THEN /\ sidecars' = sidecars
              /\ tasks' = [tasks EXCEPT ![i] = Goto(tasks[i], "mark")]
         ELSE /\ sidecars' = sidecars
              /\ tasks' = [tasks EXCEPT ![i] = ExceptHandler(tasks[i], "Exception")]
    /\ UNCHANGED <<face_blur_enabled, ledger, marked, seen_hashes, disk, batch>>
    /\ UNCHANGED <<limVars, svcVars, pollVars, enhVars, curVars, acqVars, clientVars>>

\* 9. create_sidecar_json
StepSidecar(i) ==
    /\ tasks[i].pc = "sidecar"
    /\ \E ok \in BOOLEAN :
         IF ok
         THEN /\ sidecars' = sidecars \cup {SidecarOf(tasks[i].out)}
              /\ tasks' = [tasks EXCEPT ![i] = Goto(tasks[i], "mark")]
         ELSE /\ sidecars' = sidecars
              /\ tasks' = [tasks EXCEPT ![i] = ExceptHandler(tasks[i], "Exception")]
    /\ UNCHANGED <<face_blur_enabled, ledger, marked, seen_hashes, disk, batch>>
    /\ UNCHANGED <<limVars, svcVars, pollVars, enhVars, curVars, acqVars, clientVars>>

\* 10. self.db.mark_processed(...); return output_path
StepMark(i) ==
    /\ tasks[i].pc = "mark"
    /\ \E ok \in BOOLEAN :
         IF ok
         THEN /\ ledger' = mark_processed(ledger, compute_sha256(tasks[i].path),
                                          tasks[i].path, tasks[i].out, tasks[i].source)
              /\ marked' = marked \cup {compute_sha256(tasks[i].path)}
              /\ tasks' = [tasks EXCEPT ![i] = ReturnPath(tasks[i])]
         ELSE /\ UNCHANGED <<ledger, marked>>
              /\ tasks' = [tasks EXCEPT ![i] = ExceptHandler(tasks[i], "Exception")]
    /\ UNCHANGED <<face_blur_enabled, seen_hashes, disk, sidecars, batch>>
    /\ UNCHANGED <<limVars, svcVars, pollVars, enhVars, curVars, acqVars, clientVars>>

\* a new process: CurationEngine() starts with an empty seen_hashes, and
\* ProcessedDatabase._init_db keeps the table (CREATE TABLE IF NOT EXISTS)
Restart ==
    /\ AllQuiet
    /\ seen_hashes # {}
    /\ seen_hashes' = {}
    /\ UNCHANGED <<face_blur_enabled, ledger, marked, disk, sidecars, tasks, batch>>
    /\ UNCHANGED <<limVars, svcVars, pollVars, enhVars, curVars, acqVars, clientVars>>

(***************************************************************************)
(* MediaPipeline.process_batch: a ThreadPoolExecutor of max_workers        *)
(* threads runs the submitted process_file tasks; the caller collects      *)
(* future.result() in submission order.                                    *)
(***************************************************************************)
BatchLists(k) == UNION {[1..n -> Paths] : n \in 0..k}

InBatch(i) == batch.state # "idle" /\ i > batch.first /\ i <= batch.first + batch.n

\* futures = [executor.submit(self.process_file, path, source) for path in file_paths]
CallProcessBatch(ps, source, max_workers) ==
    /\ AllQuiet
    /\ Len(tasks) + Len(ps) <= MaxCalls
    /\ tasks' = tasks \o [k \in 1..Len(ps) |-> NewTask(ps[k], source, "batch", "queued")]
    /\ batch' = [state |-> "running", first |-> Len(tasks), n |-> Len(ps),
                 max_workers |-> max_workers, coll |-> 1, results |-> <<>>]
    /\ UNCHANGED <<face_blur_enabled, ledger, marked, seen_hashes, disk, sidecars>>
    /\ UNCHANGED <<limVars, svcVars, pollVars, enhVars, curVars, acqVars, clientVars>>

\* an idle pool thread takes the oldest queued work item
WorkerTake(i) ==
    /\ tasks[i].pc = "queued"
    /\ \A j \in TaskIds : j < i => tasks[j].pc # "queued"
    /\ Cardinality({j \in TaskIds : Running(tasks[j])}) < batch.max_workers
    /\ LocalStep(i, Goto(tasks[i], "hash"))

\* mutant: results are gathered newest first
CollectResultNewestFirst(r, results) ==
    IF r.kind = "path" THEN <<r.path>> \o results ELSE results

\* result = future.result(); if result: results.append(result)
CollectResult(r, results) ==
    IF r.kind = "path" THEN Append(results, r.path) ELSE results

BatchCollect ==
    /\ batch.state = "running"
    /\ batch.coll <= batch.n
    /\ tasks[batch.first + batch.coll].pc = "done"
    /\ batch' = [batch EXCEPT !.coll = @ + 1,
                              !.results = CollectResult(tasks[batch.first + batch.coll].result, @)]
    /\ UNCHANGED <<face_blur_enabled, ledger, marked, seen_hashes, disk, sidecars, tasks>>
    /\ UNCHANGED <<limVars, svcVars, pollVars, enhVars, curVars, acqVars, clientVars>>

\* return results (leaving the "with" block joins the pool)
BatchReturn ==
    /\ batch.state = "running"
    /\ batch.coll > batch.n
    /\ \A i \in TaskIds : InBatch(i) => tasks[i].pc = "done"
    /\ batch' = [batch EXCEPT !.state = "returned"]
    /\ UNCHANGED <<face_blur_enabled, ledger, marked, seen_hashes, disk, sidecars, tasks>>
    /\ UNCHANGED <<limVars, svcVars, pollVars, enhVars, curVars, acqVars, clientVars>>

(***************************************************************************)
(* Initial states                                                          *)
(***************************************************************************)
\* no direct call of a CurationEngine method made yet
CurIdle == [op |-> "none", n |-> 0]

IngestInit ==
    /\ face_blur_enabled \in BOOLEAN
    /\ ledger = <<>>
    /\ marked = {}
    /\ seen_hashes = {}
    /\ disk = <<>>
    /\ sidecars = {}
    /\ tasks = <<>>
    /\ batch = [state |-> "idle", first |-> 0, n |-> 0, max_workers |-> 1,
                coll |-> 1, results |-> <<>>]
    /\ cur = CurIdle

\* no _poll_task_status call made yet
PollIdle ==
    [pc |-> "idle", max_wait_time |-> 0, t |-> 0, nap |-> 0, sent |-> 0, calls |-> 0,
     last |-> "none", outcome |-> "none", clean |-> TRUE, errors |-> 0]

\* no EnhancePipeline.execute call made yet
\* no thread is inside acquire, the lock is free
MaxThreads == 2
Threads == 1..MaxThreads
ThreadIdle == [pc |-> "idle", calls |-> 0, size |-> <<0, 0>>, now |-> 0, refill |-> 0, read |-> 0]
AcqIdle == [th |-> [k \in Threads |-> ThreadIdle], lock |-> 0, granted |-> 0]

\* no _make_request call was made
ClientIdle ==
    [pc |-> "idle", retry_attempts |-> 3, attempt |-> 0, posts |-> 0, calls |-> 0,
     last |-> "none", slept |-> 0, outcome |-> "none", code |-> "none"]

EnhIdle ==
    [pc |-> "idle", backend |-> "local", api_key |-> FALSE, calls |-> 0,
     gemini_calls |-> 0, local_calls |-> 0, mode |-> "none", gem |-> "none",
     preset |-> "none", outcome |-> "none", raised |-> "none", metadata |-> <<>>]

\* history: no request answered yet
NoEntry == [endpoint |-> "none"]

LimIdle ==
    /\ now = 0
    /\ lim = [capacity |-> 1, tokens |-> 1, allow_4k |-> FALSE, last_refill |-> 0]
    /\ limLast = [op |-> "none", burst |-> 0, empty_since |-> -1]
    /\ bucket = [BG_REQS_PER_MIN |-> 1, tokens |-> 1, last |-> 0]
    /\ bucketLast = [op |-> "none", burst |-> 0, empty_since |-> -1]

SvcIdle ==
    /\ env = [bg_engine |-> "sdxl", ALLOW_4K |-> FALSE, BG_FALLBACK_LOCAL |-> FALSE]
    /\ sdxl_cache = <<>>
    /\ svcLog = [n |-> 0, served |-> <<>>, last |-> NoEntry]
    /\ poll = PollIdle
    /\ acq = AcqIdle
    /\ bgc = ClientIdle
    /\ enh = EnhIdle

Init == IngestInit /\ LimIdle /\ SvcIdle

Next ==
    \/ \E p \in Paths, s \in Sources : CallProcessFile(p, s)
    \/ \E ps \in BatchLists(MaxBatch), s \in Sources, w \in 1..MaxWorkers :
          CallProcessBatch(ps, s, w)
    \/ \E i \in TaskIds : WorkerTake(i)
    \/ \E i \in TaskIds : StepHash(i)
    \/ \E i \in TaskIds : StepLoad(i)
    \/ \E i \in TaskIds : StepDupScan(i)
    \/ \E i \in TaskIds : StepDupAdd(i)
    \/ \E i \in TaskIds : StepScore(i)
    \/ \E i \in TaskIds : StepEnhance(i)
    \/ \E i \in TaskIds : StepWatermark(i)
    \/ \E i \in TaskIds : StepFaceBlur(i)
    \/ \E i \in TaskIds : StepOutputPath(i)
    \/ \E i \in TaskIds : StepSave(i)
    \/ \E i \in TaskIds : StepSidecar(i)
    \/ \E i \in TaskIds : StepMark(i)
    \/ BatchCollect
    \/ BatchReturn
    \/ Restart

Spec == Init /\ [][Next]_vars

(***************************************************************************)
(* Token buckets: TokenBucketLimiter (limits.py) and _consume_token        *)
(* (main.py).  Time is in whole seconds; for the capacities explored       *)
(* int(elapsed * (capacity / 60)) equals the integer quotient below.       *)
(***************************************************************************)
RefillPeriod == 60
MaxDim == 4096
TickSteps == {10, 30}
Sizes == {<<512, 512>>, <<4096, 4096>>, <<4097, 512>>, <<512, 8192>>}

Min(a, b) == IF a <= b THEN a ELSE b

\* mutant: the refill rate is computed over a longer period
RefillAmountSlow(elapsed, capacity) == (elapsed * capacity) \div (RefillPeriod + 1)

\* refill = int(elapsed * (capacity / 60))
RefillAmount(elapsed, capacity) == (elapsed * capacity) \div RefillPeriod

\* mutant: the refill is added without the cap
LimRefillUncapped(l, t) ==
    LET refill == RefillAmount(t - l.last_refill, l.capacity)
    IN  IF refill > 0
        THEN [l EXCEPT !.tokens = l.tokens + refill, !.last_refill = t]
        ELSE l

\* TokenBucketLimiter._refill
LimRefill(l, t) ==
    LET refill == RefillAmount(t - l.last_refill, l.capacity)
    IN  IF refill > 0
        THEN [l EXCEPT !.tokens = Min(l.capacity, l.tokens + refill), !.last_refill = t]
        ELSE l

Oversize(size) == size[1] > MaxDim \/ size[2] > MaxDim

\* mutant: the token test admits a request from an empty bucket
LimLockedOffByOne(l, size) ==
    IF Oversize(size) /\ ~l.allow_4k THEN <<l, "OversizeError">>
    ELSE IF l.tokens >= 0 THEN <<[l EXCEPT !.tokens = l.tokens - 1], "ok">>
    ELSE <<l, "RateLimitError">>

\* mutant: the token is taken before the size is looked at
LimLockedTokenFirst(l, size) ==
    IF l.tokens > 0
    THEN IF Oversize(size) /\ ~l.allow_4k
         THEN <<[l EXCEPT !.tokens = l.tokens - 1], "OversizeError">>
         ELSE <<[l EXCEPT !.tokens = l.tokens - 1], "ok">>
    ELSE IF Oversize(size) /\ ~l.allow_4k THEN <<l, "OversizeError">>
    ELSE <<l, "RateLimitError">>

\* the locked section of TokenBucketLimiter.acquire: <<limiter after, outcome>>
LimLocked(l, size) ==
    IF Oversize(size) /\ ~l.allow_4k THEN <<l, "OversizeError">>
    ELSE IF l.tokens > 0 THEN <<[l EXCEPT !.tokens = l.tokens - 1], "ok">>
    ELSE <<l, "RateLimitError">>

\* TokenBucketLimiter.acquire(size)
LimAcquireResult(l, size, t) == LimLocked(LimRefill(l, t), size)

\* main._consume_token: <<bucket after, returned value>>
ConsumeTokenResult(b, t) ==
    LET refill == RefillAmount(t - b.last, b.BG_REQS_PER_MIN)
        r == IF refill > 0
             THEN [b EXCEPT !.tokens = Min(b.BG_REQS_PER_MIN, b.tokens + refill), !.last = t]
             ELSE b
    IN  IF r.tokens > 0 THEN <<[r EXCEPT !.tokens = r.tokens - 1], TRUE>>
        ELSE <<r, FALSE>>

\* history: successful acquires made at this instant since the bucket was
\* full at this instant (-1: the bucket was not full when the instant began)
BurstStart(burst, tokensAfterRefill, capacity) ==
    IF tokensAfterRefill = capacity THEN 0 ELSE burst
BurstAfter(start, ok) == IF ok /\ start >= 0 THEN start + 1 ELSE start

\* history: the time at which the bucket was left empty (-1: it holds a
\* token), and how long ago that was when the next acquire arrives
EmptySince(since, tokensAfterRefill, tokensAfter, t) ==
    IF tokensAfter > 0 THEN -1
    ELSE IF tokensAfterRefill = 0 /\ since >= 0 THEN since
    ELSE t
Waited(since, t) == IF since >= 0 THEN t - since ELSE -1

\* time passes
Tick(d) ==
    /\ now + d <= MaxTime
    /\ now' = now + d
    /\ limLast' = [limLast EXCEPT !.burst = -1]
    /\ bucketLast' = [bucketLast EXCEPT !.burst = -1]
    /\ UNCHANGED <<lim, bucket>>

LimTick(d) == Tick(d) /\ UNCHANGED <<ingestVars, svcVars, pollVars, enhVars, curVars, acqVars, clientVars>>

\* limiter.acquire(size), called by one thread at a time
LimAcquire(size) ==
    /\ LET refilled == LimRefill(lim, now)
           res == LimAcquireResult(lim, size, now)
           start == BurstStart(limLast.burst, refilled.tokens, lim.capacity)
       IN  /\ lim' = res[1]
           /\ limLast' = [op |-> "acquire", oversize |-> Oversize(size), result |-> res[2],
                          tokens_before |-> lim.tokens, tokens_refilled |-> refilled.tokens,
                          burst_before |-> start, burst |-> BurstAfter(start, res[2] = "ok"),
                          waited |-> Waited(limLast.empty_since, now),
                          empty_since |-> EmptySince(limLast.empty_since, refilled.tokens,
                                                     res[1].tokens, now)]
    /\ UNCHANGED <<now, bucket, bucketLast>>
    /\ UNCHANGED <<ingestVars, svcVars, pollVars, enhVars, curVars, acqVars, clientVars>>

\* a direct call of main._consume_token() (as tests/test_service.py does)
ConsumeToken ==
    /\ LET res == ConsumeTokenResult(bucket, now)
           refilledTokens == res[1].tokens + (IF res[2] THEN 1 ELSE 0)
           start == BurstStart(bucketLast.burst, refilledTokens, bucket.BG_REQS_PER_MIN)
       IN  /\ bucket' = res[1]
           /\ bucketLast' = [op |-> "consume", result |-> res[2],
                             burst_before |-> start, burst |-> BurstAfter(start, res[2]),
                             waited |-> Waited(bucketLast.empty_since, now),
                             empty_since |-> EmptySince(bucketLast.empty_since, refilledTokens,
                                                        res[1].tokens, now)]
    /\ UNCHANGED <<now, lim, limLast>>
    /\ UNCHANGED <<ingestVars, svcVars, pollVars, enhVars, curVars, acqVars, clientVars>>

\* TokenBucketLimiter(rate_per_minute, allow_4k) and the module globals of
\* main.py, both constructed at time 0 with a full bucket
LimInit ==
    /\ now = 0
    /\ \E c \in 1..MaxCapacity, a \in BOOLEAN :
         lim = [capacity |-> c, tokens |-> c, allow_4k |-> a, last_refill |-> 0]
    /\ limLast = [op |-> "none", burst |-> 0, empty_since |-> -1]
    /\ \E c \in 1..MaxCapacity : bucket = [BG_REQS_PER_MIN |-> c, tokens |-> c, last |-> 0]
    /\ bucketLast = [op |-> "none", burst |-> 0, empty_since |-> -1]

IngestIdle ==
    /\ face_blur_enabled = FALSE
    /\ ledger = <<>>
    /\ marked = {}
    /\ seen_hashes = {}
    /\ disk = <<>>
    /\ sidecars = {}
    /\ tasks = <<>>
    /\ batch = [state |-> "idle", first |-> 0, n |-> 0, max_workers |-> 1,
                coll |-> 1, results |-> <<>>]
    /\ cur = CurIdle

InitLimiter == IngestIdle /\ LimInit /\ SvcIdle

NextLimiter ==
    \/ \E d \in TickSteps : LimTick(d)
    \/ \E size \in Sizes : LimAcquire(size)
    \/ ConsumeToken

SpecLimiter == InitLimiter /\ [][NextLimiter]_vars

(***************************************************************************)
(* limits.py: TokenBucketLimiter.acquire called by several threads.        *)
(* acquire calls self._refill() before `with self.lock`, so the            *)
(* statements of _refill (lines 14-19) run unlocked and interleave with    *)
(* every statement of the other threads; the statements of lines 24-30     *)
(* run with the lock held.                                                 *)
(***************************************************************************)
MaxAcqCalls == 2
AcqTickSteps == {30}
AcqSizes == {<<512, 512>>, <<4097, 512>>}

AcqFrame == UNCHANGED <<ingestVars, svcVars, pollVars, enhVars, curVars, clientVars>>
AcqStep(k, t) == acq' = [acq EXCEPT !.th[k] = t]
AcqAt(k, pc) == acq.th[k].pc = pc
\* the thread leaves acquire; the with-block releases the lock it holds
AcqLeave(k, granted) ==
    acq' = [acq EXCEPT !.th[k].pc = "idle", !.lock = 0,
                       !.granted = IF granted THEN @ + 1 ELSE @]

AcqTick(d) ==
    /\ Tick(d)
    /\ UNCHANGED <<ingestVars, svcVars, pollVars, enhVars, curVars, acqVars, clientVars>>

\* a thread calls limiter.acquire(size)
AcqCall(k, size) ==
    /\ AcqAt(k, "idle")
    /\ acq.th[k].calls < MaxAcqCalls
    /\ AcqStep(k, [acq.th[k] EXCEPT !.pc = "refill_now", !.calls = @ + 1, !.size = size])
    /\ UNCHANGED limVars /\ AcqFrame

\* line 14: now = time.monotonic()
AcqRefillNow(k) ==
    /\ AcqAt(k, "refill_now")
    /\ AcqStep(k, [acq.th[k] EXCEPT !.pc = "refill_elapsed", !.now = now])
    /\ UNCHANGED limVars /\ AcqFrame

\* lines 15-17: elapsed = now - self.last_refill; refill = int(...); if refill > 0
AcqRefillElapsed(k) ==
    /\ AcqAt(k, "refill_elapsed")
    /\ LET refill == RefillAmount(acq.th[k].now - lim.last_refill, lim.capacity)
       IN  AcqStep(k, [acq.th[k] EXCEPT !.refill = refill,
                                        !.pc = IF refill > 0 THEN "refill_read" ELSE "lock"])
    /\ UNCHANGED limVars /\ AcqFrame

\* line 18, the load of self.tokens in min(self.capacity, self.tokens + refill)
AcqRefillRead(k) ==
    /\ AcqAt(k, "refill_read")
    /\ AcqStep(k, [acq.th[k] EXCEPT !.pc = "refill_write", !.read = lim.tokens])
    /\ UNCHANGED limVars /\ AcqFrame

\* line 18, the store to self.tokens
AcqRefillWrite(k) ==
    /\ AcqAt(k, "refill_write")
    /\ lim' = [lim EXCEPT !.tokens = Min(lim.capacity, acq.th[k].read + acq.th[k].refill)]
    /\ AcqStep(k, [acq.th[k] EXCEPT !.pc = "refill_last"])
    /\ UNCHANGED <<now, limLast, bucket, bucketLast>> /\ AcqFrame

\* line 19: self.last_refill = now
AcqRefillLast(k) ==
    /\ AcqAt(k, "refill_last")
    /\ lim' = [lim EXCEPT !.last_refill = acq.th[k].now]
    /\ AcqStep(k, [acq.th[k] EXCEPT !.pc = "lock"])
    /\ UNCHANGED <<now, limLast, bucket, bucketLast>> /\ AcqFrame

\* line 23: with self.lock
AcqLock(k) ==
    /\ AcqAt(k, "lock")
    /\ acq.lock = 0
    /\ acq' = [acq EXCEPT !.th[k].pc = "test", !.lock = k]
    /\ UNCHANGED limVars /\ AcqFrame

\* lines 24-27 and 30: the size test, `if self.tokens > 0`, raise RateLimitError
AcqTest(k) ==
    /\ AcqAt(k, "test")
    /\ IF Oversize(acq.th[k].size) /\ ~lim.allow_4k THEN AcqLeave(k, FALSE)
       ELSE IF lim.tokens > 0 THEN AcqStep(k, [acq.th[k] EXCEPT !.pc = "dec_read"])
       ELSE AcqLeave(k, FALSE)
    /\ UNCHANGED limVars /\ AcqFrame

\* line 28, the load of self.tokens in `self.tokens -= 1`
AcqDecRead(k) ==
    /\ AcqAt(k, "dec_read")
    /\ AcqStep(k, [acq.th[k] EXCEPT !.pc = "dec_write", !.read = lim.tokens])
    /\ UNCHANGED limVars /\ AcqFrame

\* lines 28-29, the store to self.tokens; return True
AcqDecWrite(k) ==
    /\ AcqAt(k, "dec_write")
    /\ lim' = [lim EXCEPT !.tokens = acq.th[k].read - 1]
    /\ AcqLeave(k, TRUE)
    /\ UNCHANGED <<now, limLast, bucket, bucketLast>> /\ AcqFrame

\* one limiter shared by the threads, constructed at time 0 with a full bucket
InitThreads ==
    /\ IngestIdle /\ SvcIdle
    /\ now = 0
    /\ \E c \in 1..MaxCapacity :
         lim = [capacity |-> c, tokens |-> c, allow_4k |-> FALSE, last_refill |-> 0]
    /\ limLast = [op |-> "none", burst |-> 0, empty_since |-> -1]
    /\ bucket = [BG_REQS_PER_MIN |-> 1, tokens |-> 1, last |-> 0]
    /\ bucketLast = [op |-> "none", burst |-> 0, empty_since |-> -1]

NextThreads ==
    \/ \E d \in AcqTickSteps : AcqTick(d)
    \/ \E k \in Threads, size \in AcqSizes : AcqCall(k, size)
    \/ \E k \in Threads : AcqRefillNow(k)
    \/ \E k \in Threads : AcqRefillElapsed(k)
    \/ \E k \in Threads : AcqRefillRead(k)
    \/ \E k \in Threads : AcqRefillWrite(k)
    \/ \E k \in Threads : AcqRefillLast(k)
    \/ \E k \in Threads : AcqLock(k)
    \/ \E k \in Threads : AcqTest(k)
    \/ \E k \in Threads : AcqDecRead(k)
    \/ \E k \in Threads : AcqDecWrite(k)

SpecThreads == InitThreads /\ [][NextThreads]_vars

(***************************************************************************)
(* main.py: the /background/replace and /background/cleanup handlers, with *)
(* generate.py's SDXLGenerator cache.  One action per request.             *)
(***************************************************************************)
\* request parameters explored: two valid parameter sets that differ in
\* the prompt, one with steps out of range, one with guidance out of range
\* (guidance_scale in tenths)
ParamSets ==
    {[prompt |-> "a", steps |-> 20, guidance |-> 75],
     [prompt |-> "b", steps |-> 20, guidance |-> 75],
     [prompt |-> "a", steps |-> 0, guidance |-> 75],
     [prompt |-> "a", steps |-> 20, guidance |-> 205]}
ImageDims == {1024, 5000}
Images == {"img1", "img2"}
NoImage == "none"
SvcTickSteps == {30}

\* (prompt, negative_prompt, width, height, steps, guidance_scale, seed);
\* main.py always asks for 1024x1024 and the request's seed (None here)
CacheKey(req) ==
    <<req.params.prompt, "people, text, watermark", 1024, 1024, req.params.steps,
      req.params.guidance, "None">>

\* SDXLGenerator.generate_background: <<cache after, image, pipeline invoked, ok>>
SdxlGenerate(cache, key, gen_ok, image) ==
    IF key \in DOMAIN cache THEN <<cache, cache[key], FALSE, TRUE>>
    ELSE IF gen_ok
         THEN <<[k \in (DOMAIN cache) \cup {key} |-> IF k = key THEN image ELSE cache[k]],
                image, TRUE, TRUE>>
         ELSE <<cache, NoImage, TRUE, FALSE>>

\* the response model: ProcessingResponse(success, output_path, message)
\* leaves engine_used at None and meta at {}
Response(status) == [status |-> status, engine_used |-> "None", meta |-> <<>>]

\* mutant: the local engine is tried first and the remote engine after it
EngineAttemptsLocalFirst(e, oversize) ==
    LET remote == IF e.bg_engine = "runway" /\ ~oversize THEN <<"runway">> ELSE <<>>
        local == IF (e.bg_engine = "sdxl" \/ e.BG_FALLBACK_LOCAL) /\ ~oversize
                 THEN <<"sdxl">> ELSE <<>>
    IN  local \o remote

\* the engines the request tries, in the order of the code: the Runway
\* branch (`if engine == BGEngine.RUNWAY`, main.py:255-270) reaches the
\* import and the call of the remote generator unless the size test raised;
\* the SDXL branch (`if engine == BGEngine.SDXL`, main.py:271-282) follows
\* it, entered for engine sdxl or after `engine = BGEngine.SDXL` of the
\* fallback, and calls the local generator unless its size test raised
EngineAttempts(e, oversize) ==
    LET remote == IF e.bg_engine = "runway" /\ ~oversize THEN <<"runway">> ELSE <<>>
        local == IF (e.bg_engine = "sdxl" \/ e.BG_FALLBACK_LOCAL) /\ ~oversize
                 THEN <<"sdxl">> ELSE <<>>
    IN  remote \o local

\* the part of replace_background after the token was taken:
\* [status, reason, cache, image, remote_failed, local_invoked, pipeline_invoked,
\*  cache_hit, attempts]
ReplaceAfterToken(req, e, cache) ==
    LET oversize == req.max_dim > MaxDim /\ ~e.ALLOW_4K
        base == [status |-> 200, reason |-> "none", cache |-> cache, image |-> NoImage,
                 remote_failed |-> FALSE, local_invoked |-> FALSE,
                 pipeline_invoked |-> FALSE, cache_hit |-> FALSE, attempts |-> <<>>]
        tried == EngineAttempts(e, oversize)
        \* engine == BGEngine.RUNWAY: the oversize HTTPException, or the import of
        \* generate_background_remote (absent from runway_adapter.py), raises
        \* inside the try and is caught by "except Exception"
        viaRunway == e.bg_engine = "runway"
        gen == SdxlGenerate(cache, CacheKey(req), req.fail # "sdxl", req.image)
    IN  IF req.params.steps < 1 \/ req.params.steps > 100
             THEN [base EXCEPT !.status = 400, !.reason = "validation"]
        ELSE IF req.params.guidance < 10 \/ req.params.guidance > 200
             THEN [base EXCEPT !.status = 400, !.reason = "validation"]
        ELSE IF req.fail = "load"
             THEN [base EXCEPT !.status = 500, !.reason = "load"]
        ELSE IF viaRunway /\ ~e.BG_FALLBACK_LOCAL
             THEN [base EXCEPT !.status = 500, !.remote_failed = TRUE, !.attempts = tried,
                               !.reason = IF oversize THEN "oversize" ELSE "runway"]
        ELSE IF oversize
             THEN [base EXCEPT !.status = 400, !.reason = "oversize", !.attempts = tried,
                               !.remote_failed = viaRunway]
        ELSE IF ~gen[4]
             THEN [base EXCEPT !.status = 500, !.reason = "sdxl", !.remote_failed = viaRunway,
                               !.attempts = tried,
                               !.local_invoked = TRUE, !.pipeline_invoked = gen[3]]
        ELSE IF req.fail = "post"
             THEN [base EXCEPT !.status = 500, !.reason = "post", !.remote_failed = viaRunway,
                               !.attempts = tried,
                               !.cache = gen[1], !.image = gen[2], !.local_invoked = TRUE,
                               !.pipeline_invoked = gen[3], !.cache_hit = ~gen[3]]
        ELSE [base EXCEPT !.remote_failed = viaRunway, !.attempts = tried,
                          !.cache = gen[1], !.image = gen[2], !.local_invoked = TRUE,
                          !.pipeline_invoked = gen[3], !.cache_hit = ~gen[3]]

\* a request: its parameters, the uploaded image's larger dimension, the
\* step of the handler that fails (if any) and the image the SDXL pipeline
\* would produce
Requests ==
    [params : ParamSets, max_dim : ImageDims, fail : {"none", "load", "sdxl", "post"},
     image : Images]

\* history: per cache key, the image of the first 200 response and how
\* many 200 responses were given (counted up to 2)
ServedAfter(served, key, status, image) ==
    IF status # 200 THEN served
    ELSE IF key \in DOMAIN served
         THEN [served EXCEPT ![key].n = Min(2, @ + 1)]
         ELSE [k \in (DOMAIN served) \cup {key} |->
                 IF k = key THEN [image |-> image, n |-> 1] ELSE served[k]]

\* POST /background/replace
ReplaceBackground(req) ==
    /\ svcLog.n < MaxRequests
    /\ LET tok == ConsumeTokenResult(bucket, now)
           after == ReplaceAfterToken(req, env, sdxl_cache)
           refilled == tok[1].tokens + (IF tok[2] THEN 1 ELSE 0)
           common == [endpoint |-> "replace", key |-> CacheKey(req),
                      oversize |-> req.max_dim > MaxDim,
                      tokens_before |-> bucket.tokens, tokens_refilled |-> refilled,
                      tokens_after |-> tok[1].tokens,
                      served_before |-> IF CacheKey(req) \in DOMAIN svcLog.served
                                        THEN svcLog.served[CacheKey(req)]
                                        ELSE [image |-> NoImage, n |-> 0]]
       IN  /\ bucket' = tok[1]
           /\ IF ~tok[2]
              THEN /\ sdxl_cache' = sdxl_cache
                   /\ svcLog' = [svcLog EXCEPT !.n = @ + 1, !.last = common @@
                        [reason |-> "rate_limit", image |-> NoImage, remote_failed |-> FALSE,
                         local_invoked |-> FALSE, pipeline_invoked |-> FALSE,
                         cache_hit |-> FALSE, attempts |-> <<>>,
                         response |-> Response(429)]]
              ELSE /\ sdxl_cache' = after.cache
                   /\ svcLog' = [n |-> svcLog.n + 1,
                                 served |-> ServedAfter(svcLog.served, CacheKey(req),
                                                        after.status, after.image),
                                 last |-> common @@
                        [reason |-> after.reason, image |-> after.image,
                         remote_failed |-> after.remote_failed,
                         local_invoked |-> after.local_invoked,
                         pipeline_invoked |-> after.pipeline_invoked,
                         cache_hit |-> after.cache_hit, attempts |-> after.attempts,
                         response |-> Response(after.status)]]
    /\ UNCHANGED <<now, lim, limLast, bucketLast, env>>
    /\ UNCHANGED <<ingestVars, pollVars, enhVars, curVars, acqVars, clientVars>>

SvcTick(d) == Tick(d) /\ UNCHANGED <<ingestVars, svcVars, pollVars, enhVars, curVars, acqVars, clientVars>>

SvcInit ==
    /\ now = 0
    /\ lim = [capacity |-> 1, tokens |-> 1, allow_4k |-> FALSE, last_refill |-> 0]
    /\ limLast = [op |-> "none", burst |-> 0, empty_since |-> -1]
    /\ \E c \in 1..MaxCapacity : bucket = [BG_REQS_PER_MIN |-> c, tokens |-> c, last |-> 0]
    /\ bucketLast = [op |-> "none", burst |-> 0, empty_since |-> -1]
    /\ env \in [bg_engine : {"sdxl", "runway"}, ALLOW_4K : BOOLEAN, BG_FALLBACK_LOCAL : BOOLEAN]
    /\ sdxl_cache = <<>>
    /\ svcLog = [n |-> 0, served |-> <<>>, last |-> NoEntry]
    /\ poll = PollIdle
    /\ acq = AcqIdle
    /\ bgc = ClientIdle
    /\ enh = EnhIdle

InitService == IngestIdle /\ SvcInit

NextService ==
    \/ \E d \in SvcTickSteps : SvcTick(d)
    \/ \E req \in Requests : ReplaceBackground(req)

SpecService == InitService /\ [][NextService]_vars

(***************************************************************************)
(* CurationEngine methods called directly, one call at a time (as          *)
(* tests/test_curation.py does)                                            *)
(***************************************************************************)
MaxCurCalls == 3
\* score sets around the thresholds (aesthetic and exposure in tenths)
ScoreInputs == [aesthetic : {4, 5, 6}, sharpness : {99, 100, 101}, exposure : {2, 3, 4}]
\* hashes at Hamming distances 1, 3, 4, 5 (the threshold), 7 and 8 of each other
HashInputs == {<<"0", "0">>, <<"0", "7">>, <<"1", "0">>, <<"f", "f">>, <<"f", "8">>}

\* mutant: a duplicate is registered as well
check_duplicateAlwaysAdds(image_hash, seen) ==
    <<ScanFindsDuplicate(image_hash, seen), seen \cup {image_hash}>>

\* CurationEngine.check_duplicate: <<returned value, seen_hashes after>>
check_duplicate(image_hash, seen) ==
    IF ScanFindsDuplicate(image_hash, seen) THEN <<TRUE, seen>>
    ELSE <<FALSE, seen \cup {image_hash}>>

CurFrame ==
    /\ UNCHANGED <<face_blur_enabled, ledger, marked, disk, sidecars, tasks, batch>>
    /\ UNCHANGED <<limVars, svcVars, pollVars, enhVars, acqVars, clientVars>>

\* curation_engine.should_keep_image(scores)
CurShouldKeep(scores) ==
    /\ cur.n < MaxCurCalls
    /\ cur' = [op |-> "should_keep_image", n |-> cur.n + 1, arg |-> scores,
               result |-> should_keep_image(scores), seen_before |-> seen_hashes]
    /\ seen_hashes' = seen_hashes
    /\ CurFrame

\* curation_engine.check_duplicate(image_hash)
CurCheckDuplicate(image_hash) ==
    /\ cur.n < MaxCurCalls
    /\ LET res == check_duplicate(image_hash, seen_hashes)
       IN  /\ cur' = [op |-> "check_duplicate", n |-> cur.n + 1, arg |-> image_hash,
                      result |-> res[1], seen_before |-> seen_hashes]
           /\ seen_hashes' = res[2]
    /\ CurFrame

InitCuration == IngestIdle /\ LimIdle /\ SvcIdle

NextCuration ==
    \/ \E scores \in ScoreInputs : CurShouldKeep(scores)
    \/ \E h \in HashInputs : CurCheckDuplicate(h)

SpecCuration == InitCuration /\ [][NextCuration]_vars

(***************************************************************************)
(* runway_adapter.py: RunwayAdapter._poll_task_status.  poll.t is the      *)
(* time elapsed since start_time, poll.sent counts the requests sent to    *)
(* the provider over all calls.                                            *)
(***************************************************************************)
MaxPolls == 2
MaxWaitTimes == {0, 5, 12}
\* time taken by one requests.get: at once, or the whole timeout=10
QueryDurations == {0, 10}
PollSleepStatus == 2
PollSleepError == 5
\* what one status query can produce: a 200 answer carrying a status, a
\* non-200 answer, a requests.RequestException, a 200 answer whose body is
\* not JSON
PollResponses ==
    {"PENDING", "RUNNING", "SUCCEEDED", "FAILED", "UNKNOWN", "non200",
     "RequestException", "bad_json"}

PollEnd(p, outcome) == [p EXCEPT !.pc = "done", !.outcome = outcome]
PollNap(p, seconds) == [p EXCEPT !.pc = "sleep", !.nap = seconds]

\* mutant: the loop test admits elapsed = max_wait_time
PollBudgetLeftInclusive(p) == p.t <= p.max_wait_time

\* while time.time() - start_time < max_wait_time
PollBudgetLeft(p) == p.t < p.max_wait_time

\* mutant: a FAILED status is polled again like a pending one
PollOnResponseRetriesFailed(p, resp, json_is_request_exception) ==
    CASE resp = "SUCCEEDED" -> PollEnd(p, "return")
      [] resp \in {"PENDING", "RUNNING", "UNKNOWN", "FAILED"} -> PollNap(p, PollSleepStatus)
      [] resp = "non200" -> PollEnd([p EXCEPT !.clean = FALSE], "RuntimeError_http")
      [] resp = "RequestException" -> PollNap(p, PollSleepError)
      [] resp = "bad_json" -> PollNap([p EXCEPT !.clean = FALSE], PollSleepError)

\* mutant: the third transport error of a call ends it
PollOnResponseErrorBudget(p, resp, json_is_request_exception) ==
    CASE resp = "SUCCEEDED" -> PollEnd(p, "return")
      [] resp = "FAILED" -> PollEnd(p, "RuntimeError_task_failed")
      [] resp \in {"PENDING", "RUNNING", "UNKNOWN"} -> PollNap(p, PollSleepStatus)
      [] resp = "non200" -> PollEnd([p EXCEPT !.clean = FALSE], "RuntimeError_http")
      [] resp = "RequestException" ->
            IF p.errors >= 3 THEN PollEnd(p, "RuntimeError_http")
            ELSE PollNap(p, PollSleepError)
      [] resp = "bad_json" ->
            IF json_is_request_exception
            THEN PollNap([p EXCEPT !.clean = FALSE], PollSleepError)
            ELSE PollEnd([p EXCEPT !.clean = FALSE], "ValueError")

\* the body of the loop after requests.get.  response.json() on a body that
\* is not JSON raises a JSONDecodeError that is a RequestException in some
\* versions of requests (caught, retried) and a plain ValueError in others
\* (propagated)
PollOnResponse(p, resp, json_is_request_exception) ==
    CASE resp = "SUCCEEDED" -> PollEnd(p, "return")
      [] resp = "FAILED" -> PollEnd(p, "RuntimeError_task_failed")
      [] resp \in {"PENDING", "RUNNING", "UNKNOWN"} -> PollNap(p, PollSleepStatus)
      [] resp = "non200" -> PollEnd([p EXCEPT !.clean = FALSE], "RuntimeError_http")
      [] resp = "RequestException" -> PollNap(p, PollSleepError)
      [] resp = "bad_json" ->
            IF json_is_request_exception
            THEN PollNap([p EXCEPT !.clean = FALSE], PollSleepError)
            ELSE PollEnd([p EXCEPT !.clean = FALSE], "ValueError")

PollFrame == UNCHANGED <<ingestVars, limVars, svcVars, enhVars, curVars, acqVars, clientVars>>

\* self._poll_task_status(task_id, max_wait_time): start_time = time.time()
CallPoll(max_wait_time) ==
    /\ poll.pc \in {"idle", "done"}
    /\ poll.calls < MaxPolls
    /\ poll' = [pc |-> "test", max_wait_time |-> max_wait_time, t |-> 0, nap |-> 0,
                sent |-> poll.sent, calls |-> poll.calls + 1,
                last |-> "none", outcome |-> "none", clean |-> TRUE, errors |-> 0]
    /\ PollFrame

\* the while test; raise TimeoutError when it fails
PollLoopTest ==
    /\ poll.pc = "test"
    /\ poll' = IF PollBudgetLeft(poll) THEN [poll EXCEPT !.pc = "query"]
               ELSE PollEnd(poll, "TimeoutError")
    /\ PollFrame

\* requests.get(.../tasks/{task_id}, timeout=10) and the handling of its answer
PollQuery(resp, d, json_is_request_exception) ==
    /\ poll.pc = "query"
    /\ poll' = PollOnResponse([poll EXCEPT !.t = @ + d, !.sent = @ + 1, !.last = resp,
                                           !.errors = IF resp = "RequestException"
                                                      THEN @ + 1 ELSE @],
                              resp, json_is_request_exception)
    /\ PollFrame

\* time.sleep(2) / time.sleep(5); continue
PollSleep ==
    /\ poll.pc = "sleep"
    /\ poll' = [poll EXCEPT !.pc = "test", !.t = @ + poll.nap, !.nap = 0]
    /\ PollFrame

InitPoll == IngestIdle /\ LimIdle /\ SvcIdle

NextPoll ==
    \/ \E m \in MaxWaitTimes : CallPoll(m)
    \/ PollLoopTest
    \/ \E resp \in PollResponses, d \in QueryDurations, j \in BOOLEAN : PollQuery(resp, d, j)
    \/ PollSleep

SpecPoll == InitPoll /\ [][NextPoll]_vars

\* requests.get returns or times out, time.sleep returns, and the thread
\* running the loop keeps running
SpecPollLive ==
    /\ InitPoll /\ [][NextPoll]_vars
    /\ WF_vars(PollLoopTest)
    /\ WF_vars(\E resp \in PollResponses, d \in QueryDurations, j \in BOOLEAN :
                  PollQuery(resp, d, j))
    /\ WF_vars(PollSleep)

(***************************************************************************)
(* enhance/app/pipelines/enhance.py: EnhancePipeline.execute, with the     *)
(* Gemini client of enhance/app/services/gemini.py                         *)
(***************************************************************************)
MaxEnhCalls == 2
Presets == {"studio", "outdoor"}
\* how a call of _run_gemini can end: it returns an image; httpx raises a
\* transport error in _client.post; raise_for_status raises HTTPStatusError;
\* response.json() raises; _extract_image finds no inline image data and
\* raises GeminiError; base64.b64decode raises; load_image_from_bytes raises
GeminiOutcomes ==
    {"ok", "TransportError", "HTTPStatusError", "JSONDecodeError", "GeminiError",
     "binascii.Error", "UnidentifiedImageError"}

EnhRaise(e, exc) == [e EXCEPT !.pc = "done", !.outcome = "raise", !.raised = exc]

\* try: processed = self._run_gemini(image, preset); backend_used = "gemini"
\* except GeminiError: (the local enhancer follows) backend_used = "local-fallback"
EnhAfterGemini(e, outcome) ==
    IF outcome = "ok" THEN [e EXCEPT !.pc = "post", !.mode = "gemini", !.gem = outcome]
    ELSE IF outcome = "GeminiError"
         THEN [e EXCEPT !.pc = "local", !.mode = "local-fallback", !.gem = outcome]
    ELSE EnhRaise([e EXCEPT !.gem = outcome], outcome)

EnhFrame == UNCHANGED <<ingestVars, limVars, svcVars, pollVars, curVars, acqVars, clientVars>>

\* pipeline.execute(image, preset): the test of line 35
EnhCall(preset) ==
    /\ enh.pc \in {"idle", "done"}
    /\ enh.calls < MaxEnhCalls
    /\ enh' = [enh EXCEPT !.pc = IF enh.backend = "gemini" /\ enh.api_key
                                 THEN "gemini" ELSE "local",
                          !.calls = @ + 1, !.mode = "local", !.gem = "none",
                          !.preset = preset, !.outcome = "none", !.raised = "none",
                          !.metadata = <<>>]
    /\ EnhFrame

\* self._run_gemini(image, preset)
EnhRunGemini(outcome) ==
    /\ enh.pc = "gemini"
    /\ enh' = EnhAfterGemini([enh EXCEPT !.gemini_calls = @ + 1], outcome)
    /\ EnhFrame

\* self.local_enhancer.enhance_image(image)
EnhRunLocal(ok) ==
    /\ enh.pc = "local"
    /\ enh' = IF ok THEN [enh EXCEPT !.pc = "post", !.local_calls = @ + 1]
              ELSE EnhRaise([enh EXCEPT !.local_calls = @ + 1], "local")
    /\ EnhFrame

\* _apply_privacy, _apply_watermark, metadata.update(...), return
EnhFinish(ok) ==
    /\ enh.pc = "post"
    /\ enh' = IF ok
              THEN [enh EXCEPT !.pc = "done", !.outcome = "return",
                               !.metadata = [preset |-> enh.preset, backend |-> enh.mode]]
              ELSE EnhRaise(enh, "post")
    /\ EnhFrame

\* EnhancePipeline(settings): the backend and whether a Gemini key is set
InitEnhance ==
    /\ IngestIdle /\ LimIdle
    /\ env = [bg_engine |-> "sdxl", ALLOW_4K |-> FALSE, BG_FALLBACK_LOCAL |-> FALSE]
    /\ sdxl_cache = <<>>
    /\ svcLog = [n |-> 0, served |-> <<>>, last |-> NoEntry]
    /\ poll = PollIdle
    /\ acq = AcqIdle
    /\ bgc = ClientIdle
    /\ \E b \in {"local", "gemini"}, k \in BOOLEAN :
         enh = [EnhIdle EXCEPT !.backend = b, !.api_key = k]

NextEnhance ==
    \/ \E preset \in Presets : EnhCall(preset)
    \/ \E outcome \in GeminiOutcomes : EnhRunGemini(outcome)
    \/ \E ok \in BOOLEAN : EnhRunLocal(ok)
    \/ \E ok \in BOOLEAN : EnhFinish(ok)

SpecEnhance == InitEnhance /\ [][NextEnhance]_vars

(***************************************************************************)
(* media_ingest/background_client.py: BackgroundClient._make_request       *)
(***************************************************************************)
MaxRetryAttempts == 3
MaxClientCalls == 2
\* what one requests.post can produce: a 200 answer with success true, a
\* 200 answer with success false, a non-200 answer, requests Timeout,
\* requests ConnectionError, any other exception (a 200 body that is not
\* JSON among them)
ClientResponses == {"ok", "success_false", "non200", "Timeout", "ConnectionError", "Exception"}

RECURSIVE TwoTo(_)
TwoTo(n) == IF n = 0 THEN 1 ELSE 2 * TwoTo(n - 1)

ClientEnd(b, outcome, code) == [b EXCEPT !.pc = "done", !.outcome = outcome, !.code = code]

\* except <exc>: if attempt == retry_attempts - 1: raise BackgroundClientError(..., code)
ClientOnException(b, code) ==
    IF b.attempt = b.retry_attempts - 1 THEN ClientEnd(b, "BackgroundClientError", code)
    ELSE [b EXCEPT !.pc = "wait"]

\* the try block after requests.post returned or raised, and its handlers
ClientOnResponse(b, resp) ==
    CASE resp = "ok" -> ClientEnd(b, "return", "none")
      [] resp = "success_false" -> ClientEnd(b, "BackgroundClientError", "PROCESSING_FAILED")
      [] resp = "non200" -> ClientEnd(b, "BackgroundClientError", "HTTP_ERROR")
      [] resp = "Timeout" -> ClientOnException(b, "TIMEOUT")
      [] resp = "ConnectionError" -> ClientOnException(b, "CONNECTION_ERROR")
      [] resp = "Exception" -> ClientOnException(b, "UNKNOWN_ERROR")

ClientFrame == UNCHANGED <<ingestVars, limVars, svcVars, pollVars, enhVars, curVars, acqVars>>

\* self._make_request(endpoint, files, data)
ClientCall ==
    /\ bgc.pc \in {"idle", "done"}
    /\ bgc.calls < MaxClientCalls
    /\ bgc' = [bgc EXCEPT !.pc = "loop", !.attempt = 0, !.posts = 0, !.calls = @ + 1,
                          !.last = "none", !.slept = 0, !.outcome = "none", !.code = "none"]
    /\ ClientFrame

\* for attempt in range(self.config.retry_attempts); when the range is
\* exhausted the function body ends and the call returns None
ClientLoop ==
    /\ bgc.pc = "loop"
    /\ bgc' = IF bgc.attempt < bgc.retry_attempts THEN [bgc EXCEPT !.pc = "post"]
              ELSE ClientEnd(bgc, "return_None", "none")
    /\ ClientFrame

\* requests.post(url, files=files, data=data, timeout=...) and what follows it
ClientPost(resp) ==
    /\ bgc.pc = "post"
    /\ bgc' = ClientOnResponse([bgc EXCEPT !.posts = @ + 1, !.last = resp], resp)
    /\ ClientFrame

\* if attempt < retry_attempts - 1: time.sleep(retry_delay * (2 ** attempt))
ClientWait ==
    /\ bgc.pc = "wait"
    /\ bgc' = [bgc EXCEPT !.pc = "loop", !.attempt = @ + 1,
                          !.slept = IF bgc.attempt < bgc.retry_attempts - 1
                                    THEN @ + TwoTo(bgc.attempt) ELSE @]
    /\ ClientFrame

\* BackgroundClient(config): retry_attempts is whatever the configuration holds
InitClient ==
    /\ IngestIdle /\ LimIdle
    /\ env = [bg_engine |-> "sdxl", ALLOW_4K |-> FALSE, BG_FALLBACK_LOCAL |-> FALSE]
    /\ sdxl_cache = <<>>
    /\ svcLog = [n |-> 0, served |-> <<>>, last |-> NoEntry]
    /\ poll = PollIdle /\ acq = AcqIdle /\ enh = EnhIdle
    /\ \E r \in 0..MaxRetryAttempts : bgc = [ClientIdle EXCEPT !.retry_attempts = r]

NextClient ==
    \/ ClientCall
    \/ ClientLoop
    \/ \E resp \in ClientResponses : ClientPost(resp)
    \/ ClientWait

SpecClient == InitClient /\ [][NextClient]_vars

(***************************************************************************)
(* Claims about the ingest pipeline                                        *)
(***************************************************************************)
Hashes == {compute_sha256(p) : p \in Paths}
Done(i) == tasks[i].pc = "done"
Kept(i) == Done(i) /\ tasks[i].result.kind = "path"
Acceptable(p) == should_keep_image(ScoresOf(ContentOf(p)))[1]
\* a step of the call raised for a reason outside the code (I/O and the like)
Faulted(i) == tasks[i].raised = "Exception"
OutputsOf(c) == {q \in DOMAIN disk : disk[q] = c}

\* two sequential direct calls of process_file, both returned, no outside fault
SequentialPair(i, j) ==
    /\ i < j /\ Done(i) /\ Done(j)
    /\ tasks[i].via = "direct" /\ tasks[j].via = "direct"
    /\ ~Faulted(i) /\ ~Faulted(j)

\* C1: idempotence of process_file.  Two sequential calls on files with
\* identical bytes (bytes that pass curation) leave exactly one ledger
\* record and one output file, and the second call returns None.
C1_Idempotence ==
    \A i, j \in TaskIds :
        (/\ SequentialPair(i, j)
         /\ ContentOf(tasks[i].path) = ContentOf(tasks[j].path)
         /\ Acceptable(tasks[i].path))
        => /\ is_processed(ledger, compute_sha256(tasks[i].path))
           /\ Cardinality(OutputsOf(ContentOf(tasks[i].path))) = 1
           /\ tasks[j].result.kind = "None"

\* C2: duplicate symmetry.  Two images within the Hamming threshold, at
\* least one of which passes curation, processed one after the other from
\* an empty index and ledger: exactly one is kept, in either order.
C2_DuplicateSymmetry ==
    \A i, j \in TaskIds :
        (/\ SequentialPair(i, j)
         /\ Len(tasks) = 2
         /\ ContentOf(tasks[i].path) # ContentOf(tasks[j].path)
         /\ is_duplicate(PHashOf(ContentOf(tasks[i].path)), PHashOf(ContentOf(tasks[j].path)))
         /\ PHashOf(ContentOf(tasks[i].path)) \in seen_hashes
         /\ Acceptable(tasks[i].path) \/ Acceptable(tasks[j].path))
        => Cardinality({k \in {i, j} : Kept(k)}) = 1

\* C8: failure isolation.  Whatever step of process_file raises, the call
\* returns None: a finished call has returned None or a path, never let an
\* exception out, and a call in which a step raised has returned None.
C8_FailureIsolation ==
    \A i \in TaskIds :
        Done(i) => /\ tasks[i].result.kind \in {"None", "path"}
                   /\ tasks[i].raised # "none" => tasks[i].result.kind = "None"

\* the ledger insert, the last step, raised after the output and the
\* sidecar were written: the call still returned None
C8_Witness ==
    \E i \in TaskIds :
        /\ Done(i) /\ Faulted(i) /\ tasks[i].result.kind = "None"
        /\ tasks[i].out \in DOMAIN disk
        /\ SidecarOf(tasks[i].out) \in sidecars
        /\ ~is_processed(ledger, compute_sha256(tasks[i].path))

\* C9: durable ledger.  is_processed(h) is true exactly for the hashes whose
\* mark_processed has completed, and a hash reported processed is reported
\* processed in every later state.
C9_DurableLedger ==
    /\ [](\A h \in Hashes : is_processed(ledger, h) <=> h \in marked)
    /\ [][\A h \in Hashes : is_processed(ledger, h) => is_processed(ledger', h)]_vars

\* two hashes marked one after the other, both still reported, a third
\* never marked and not reported
C9_Witness ==
    /\ Cardinality(marked) = 2
    /\ \A h \in marked : is_processed(ledger, h)
    /\ \E h \in Hashes : h \notin marked /\ ~is_processed(ledger, h)

\* the outputs of the batch's kept tasks, in submission order
KeptOutputs ==
    LET sub == SubSeq(tasks, batch.first + 1, batch.first + batch.n)
        kept == SelectSeq(sub, LAMBDA t : t.result.kind = "path")
    IN  [k \in 1..Len(kept) |-> kept[k].result.path]

\* C10: process_batch returns only when every submitted task has finished,
\* and returns exactly the non-None outputs of its tasks in submission
\* order; a failed or skipped task removes only its own entry.
C10_BatchJoin ==
    batch.state = "returned"
        => /\ \A i \in TaskIds : InBatch(i) => Done(i)
           /\ batch.results = KeptOutputs

\* a batch of two kept files, and a batch whose first task failed and whose
\* second was kept
C10_Witness ==
    /\ batch.state = "returned" /\ batch.n = 2
    /\ \/ Len(batch.results) = 2
       \/ /\ tasks[batch.first + 1].raised # "none"
          /\ Kept(batch.first + 2)
          /\ batch.results = <<tasks[batch.first + 2].result.path>>

(***************************************************************************)
(* Claims about the token buckets                                          *)
(***************************************************************************)

\* C3: token-bucket exhaustion.  From a full bucket, with no time elapsing,
\* the first `capacity` acquires succeed and every further acquire fails:
\* RateLimitError from TokenBucketLimiter.acquire, False from _consume_token.
C3_Exhaustion ==
    /\ (limLast.op = "acquire" /\ limLast.result # "OversizeError" /\ limLast.burst_before >= 0)
          => /\ limLast.burst_before = lim.capacity => limLast.result = "RateLimitError"
             /\ limLast.burst_before < lim.capacity => limLast.result = "ok"
             /\ limLast.burst_before <= lim.capacity
    /\ (bucketLast.op = "consume" /\ bucketLast.burst_before >= 0)
          => /\ bucketLast.burst_before = bucket.BG_REQS_PER_MIN => bucketLast.result = FALSE
             /\ bucketLast.burst_before < bucket.BG_REQS_PER_MIN => bucketLast.result = TRUE
             /\ bucketLast.burst_before <= bucket.BG_REQS_PER_MIN

\* both buckets exhausted by a burst of `capacity` acquires, the next one refused
C3_Witness ==
    /\ limLast.op = "acquire" /\ lim.capacity = 2
    /\ limLast.burst_before = lim.capacity /\ limLast.result = "RateLimitError"
    /\ bucketLast.op = "consume" /\ bucket.BG_REQS_PER_MIN = 2
    /\ bucketLast.burst_before = bucket.BG_REQS_PER_MIN /\ bucketLast.result = FALSE

\* C4 as stated: an oversize acquire with allow_4k off raises OversizeError
\* and leaves `tokens` as it was before the call.
C4_Original ==
    (limLast.op = "acquire" /\ limLast.oversize /\ ~lim.allow_4k)
        => /\ limLast.result = "OversizeError"
           /\ lim.tokens = limLast.tokens_before

\* C4 amended: an oversize acquire with allow_4k off raises OversizeError
\* whatever the token count and takes no token: `tokens` after the call is
\* the count left by the refill step of that call, never less than before.
C4_OversizeTakesNoToken ==
    (limLast.op = "acquire" /\ limLast.oversize /\ ~lim.allow_4k)
        => /\ limLast.result = "OversizeError"
           /\ lim.tokens = limLast.tokens_refilled
           /\ lim.tokens >= limLast.tokens_before

\* an oversize request rejected while tokens were available, and one
\* rejected as oversize (not as rate-limited) from an empty bucket
C4_Witness ==
    /\ limLast.op = "acquire" /\ limLast.oversize /\ ~lim.allow_4k
    /\ limLast.result = "OversizeError"
    /\ lim.tokens = 0 /\ limLast.tokens_before = 0

\* ceil(a / b) for positive integers
CeilDiv(a, b) == (a + b - 1) \div b

\* C12: refill availability.  An acquire that arrives ceil(60 / capacity)
\* seconds or more after the bucket was left empty succeeds (unless it is
\* refused as oversize), for TokenBucketLimiter.acquire and _consume_token.
C12_RefillAvailability ==
    /\ (/\ limLast.op = "acquire" /\ limLast.result # "OversizeError"
        /\ limLast.waited >= CeilDiv(RefillPeriod, lim.capacity))
          => limLast.result = "ok"
    /\ (/\ bucketLast.op = "consume"
        /\ bucketLast.waited >= CeilDiv(RefillPeriod, bucket.BG_REQS_PER_MIN))
          => bucketLast.result = TRUE

\* both buckets served a request exactly ceil(60 / capacity) seconds after
\* they were emptied: 30 s at capacity 2, 60 s at capacity 1
C12_Witness ==
    /\ limLast.op = "acquire" /\ lim.capacity = 2
    /\ limLast.waited = 30 /\ limLast.result = "ok"
    /\ bucketLast.op = "consume" /\ bucket.BG_REQS_PER_MIN = 1
    /\ bucketLast.waited = 60 /\ bucketLast.result = TRUE

(***************************************************************************)
(* Claims about the /background/replace handler                            *)
(***************************************************************************)
Last == svcLog.last
Answered == Last.endpoint = "replace"
MetaHas(resp, k, v) == k \in DOMAIN resp.meta /\ resp.meta[k] = v

\* C5: an oversize rejection never costs a token.  A request whose image
\* exceeds 4096 with ALLOW_4K off leaves the shared bucket with the tokens
\* it held when the request arrived (after the refill due for the time
\* elapsed): the request took none.
C5_OversizeRejectionFree ==
    (Answered /\ Last.oversize /\ ~env.ALLOW_4K)
        => /\ Last.response.status # 200
           /\ Last.tokens_after = Last.tokens_refilled

\* C6: fallback contract.  When the remote engine was selected and failed:
\* with fallback enabled the local engine is invoked and a successful
\* response reports engineUsed = local-fallback; with fallback disabled the
\* call ends in a 500 and the local engine is not invoked.
C6_FallbackContract ==
    (Answered /\ Last.remote_failed /\ ~(Last.oversize /\ ~env.ALLOW_4K))
        => IF env.BG_FALLBACK_LOCAL
           THEN /\ Last.local_invoked
                /\ Last.response.status = 200 =>
                     \/ Last.response.engine_used = "local-fallback"
                     \/ MetaHas(Last.response, "engineUsed", "local-fallback")
                     \/ MetaHas(Last.response, "engine", "local-fallback")
           ELSE /\ Last.response.status = 500
                /\ ~Last.local_invoked

\* C7: cache correctness.  A successful call whose tuple was served before
\* returns the image first served, reports cacheHit = true and does not run
\* the engine; a successful call whose tuple was never generated reports
\* cacheHit = false and runs the engine once.
C7_CacheCorrectness ==
    (Answered /\ Last.response.status = 200)
        => /\ Last.served_before.n >= 1 =>
                /\ Last.image = Last.served_before.image
                /\ ~Last.pipeline_invoked
                /\ \/ MetaHas(Last.response, "cacheHit", TRUE)
                   \/ MetaHas(Last.response, "cache_hit", TRUE)
           /\ (Last.served_before.n = 0 /\ ~Last.cache_hit) =>
                /\ Last.pipeline_invoked
                /\ \/ MetaHas(Last.response, "cacheHit", FALSE)
                   \/ MetaHas(Last.response, "cache_hit", FALSE)

\* the request's tuple was in the SDXL cache when the request arrived
CachedBefore == Last.key \in DOMAIN sdxl_cache /\ ~Last.pipeline_invoked

\* C11: an oversize request (a dimension above 4096, ALLOW_4K off) that got
\* past rate limiting, validation and image loading is answered 400 under
\* every engine and fallback setting, never 500, and reaches no engine.
C11_OversizeIsClientError ==
    (/\ Answered /\ Last.oversize /\ ~env.ALLOW_4K
     /\ Last.reason \notin {"rate_limit", "validation", "load"})
        => /\ Last.response.status = 400
           /\ ~Last.local_invoked
           /\ ~Last.pipeline_invoked

\* C18: cache lookup precedes rate limiting.  A valid request to the SDXL
\* engine whose tuple is already cached is answered 200 from the cache,
\* reports cacheHit = true and takes no token from the bucket.
C18_CacheBeforeRateLimit ==
    (/\ Answered /\ CachedBefore /\ env.bg_engine = "sdxl"
     /\ Last.reason \notin {"validation", "load", "post", "oversize"})
        => /\ Last.response.status = 200
           /\ Last.image = sdxl_cache[Last.key]
           /\ Last.tokens_after = Last.tokens_refilled
           /\ \/ MetaHas(Last.response, "cacheHit", TRUE)
              \/ MetaHas(Last.response, "cache_hit", TRUE)

(***************************************************************************)
(* Claims about RunwayAdapter._poll_task_status                            *)
(***************************************************************************)
PollTerminal == {"SUCCEEDED", "FAILED"}

\* C13: terminal statuses end polling.  The first SUCCEEDED answer makes
\* the call return that result, the first FAILED answer makes it raise at
\* once, and once the call has ended no further request is sent.
C13_TerminalEndsPolling ==
    /\ [](poll.last = "SUCCEEDED" => (poll.pc = "done" /\ poll.outcome = "return"))
    /\ [](poll.last = "FAILED" =>
            (poll.pc = "done" /\ poll.outcome = "RuntimeError_task_failed"))
    /\ [](poll.outcome = "return" => poll.last = "SUCCEEDED")
    /\ [][poll.pc = "done" => poll'.sent = poll.sent]_vars

\* a call that polled at least twice and raised on a FAILED answer with time
\* left in its budget
C13_Witness ==
    /\ poll.pc = "done" /\ poll.last = "FAILED"
    /\ poll.outcome = "RuntimeError_task_failed"
    /\ poll.sent >= 2 /\ poll.t < poll.max_wait_time

\* C14 as stated: a call that never saw a terminal status ends by raising
\* TimeoutError.
C14_Original ==
    (poll.pc = "done" /\ poll.last \notin PollTerminal) => poll.outcome = "TimeoutError"

\* C14 amended: a call whose every query was answered by a 200 carrying a
\* non-terminal status, or failed with a RequestException, terminates, and
\* does so by raising TimeoutError; no query starts once the elapsed time
\* has reached max_wait_time; raising TimeoutError sends nothing to the
\* provider and nothing is sent after the call has ended.
C14_PollTimeout ==
    /\ []((poll.pc = "done" /\ poll.clean /\ poll.last \notin PollTerminal)
            => poll.outcome = "TimeoutError")
    /\ [][poll'.sent # poll.sent => poll.t < poll.max_wait_time]_vars
    /\ [][(poll'.outcome = "TimeoutError" \/ poll.pc = "done")
            => poll'.sent = poll.sent]_vars
    /\ (poll.pc \notin {"idle", "done"}) ~> (poll.pc = "done")

\* a call that kept polling through transport errors and timed out
C14_Witness ==
    /\ poll.pc = "done" /\ poll.outcome = "TimeoutError" /\ poll.clean
    /\ poll.last = "RequestException"
    /\ poll.sent >= 2 /\ poll.max_wait_time > 0 /\ poll.t >= poll.max_wait_time

(***************************************************************************)
(* Claims about CurationEngine                                             *)
(***************************************************************************)
\* the criteria a score set violates
ViolatedCriteria(scores) ==
    {c \in {"aesthetic", "sharpness", "exposure"} :
        \/ c = "aesthetic" /\ scores.aesthetic < 5
        \/ c = "sharpness" /\ scores.sharpness < 100
        \/ c = "exposure" /\ scores.exposure < 3}

\* C15: should_keep_image(scores) returns keep = true iff reasons is empty;
\* reasons is non-empty iff aesthetic < 0.5 or sharpness < 100 or exposure
\* < 0.3, holds one reason per violated criterion, and the call changes no
\* state.
C15_CurationPolicy ==
    cur.op = "should_keep_image"
        => LET keep == cur.result[1]
               reasons == cur.result[2]
               violated == ViolatedCriteria(cur.arg)
           IN  /\ keep <=> (reasons = <<>>)
               /\ (reasons # <<>>) <=> (violated # {})
               /\ Len(reasons) = Cardinality(violated)
               /\ {reasons[k] : k \in 1..Len(reasons)} = violated
               /\ seen_hashes = cur.seen_before

\* a score set exactly on all three thresholds is kept, with a non-empty
\* index left as it was
C15_Witness ==
    /\ cur.op = "should_keep_image"
    /\ cur.arg = [aesthetic |-> 5, sharpness |-> 100, exposure |-> 3]
    /\ cur.result = <<TRUE, <<>>>>
    /\ seen_hashes # {} /\ seen_hashes = cur.seen_before

\* C17: check_duplicate(hash) returns true and leaves the registered set
\* unchanged when a registered hash is within the Hamming threshold;
\* otherwise it returns false and the registered set becomes the previous
\* set plus this hash.
C17_CheckDuplicateFrame ==
    cur.op = "check_duplicate"
        => LET near == \E g \in cur.seen_before :
                          HammingDistance(HexToInt(cur.arg), HexToInt(g)) <= 5
           IN  /\ cur.result = near
               /\ near => seen_hashes = cur.seen_before
               /\ ~near => seen_hashes = cur.seen_before \cup {cur.arg}

\* a hash at exactly the threshold distance (5) of the only registered hash
\* is reported a duplicate and not registered
C17_Witness ==
    /\ cur.op = "check_duplicate" /\ cur.arg = <<"f", "f">>
    /\ cur.seen_before = {<<"0", "7">>}
    /\ cur.result = TRUE /\ seen_hashes = {<<"0", "7">>}

(***************************************************************************)
(* Claims about EnhancePipeline.execute                                    *)
(***************************************************************************)
\* C16: EnhancePipeline fallback.  With backend "gemini" and a configured
\* client, a failure of the Gemini call (the local enhancer and the later
\* stages working) makes execute return with metadata backend =
\* "local-fallback" instead of raising; backend = "gemini" is reported only
\* when the Gemini call succeeded.
C16_EnhanceFallback ==
    /\ (/\ enh.pc = "done" /\ enh.gem \notin {"none", "ok"}
        /\ enh.raised \notin {"local", "post"})
          => /\ enh.outcome = "return"
             /\ enh.metadata.backend = "local-fallback"
    /\ (enh.pc = "done" /\ enh.outcome = "return" /\ enh.metadata.backend = "gemini")
          => enh.gem = "ok"

(***************************************************************************)
(* Claims about the order of the steps of process_file                     *)
(***************************************************************************)
OnDisk(out) == out \in DOMAIN disk /\ SidecarOf(out) \in sidecars

\* C19: commit-point ordering.  mark_processed runs only after the output
\* image was saved and its sidecar written: a call that stands before
\* mark_processed has both files on disk, and in every reachable state,
\* failures at any step included, every hash of the ledger has its output
\* file and its sidecar on disk.
C19_CommitPointOrdering ==
    /\ \A i \in 1..Len(tasks) : tasks[i].pc = "mark" => OnDisk(tasks[i].out)
    /\ \A h \in DOMAIN ledger : OnDisk(ledger[h].output_path)

\* one call committed, and another call failed after its output and its
\* sidecar were written, leaving files without a ledger row
C19_Witness ==
    \E i, j \in 1..Len(tasks) :
        /\ Kept(i) /\ compute_sha256(tasks[i].path) \in DOMAIN ledger
        /\ Done(j) /\ Faulted(j) /\ OnDisk(tasks[j].out)
        /\ compute_sha256(tasks[j].path) \notin DOMAIN ledger

\* the position of each step in process_file
StepRank(pc) ==
    CASE pc = "queued" -> 0
      [] pc = "hash" -> 1
      [] pc = "load" -> 2
      [] pc = "dup_scan" -> 3
      [] pc = "dup_add" -> 4
      [] pc = "score" -> 5
      [] pc = "enhance" -> 6
      [] pc = "watermark" -> 7
      [] pc = "face_blur" -> 8
      [] pc = "save_path" -> 9
      [] pc = "save" -> 10
      [] pc = "sidecar" -> 11
      [] pc = "mark" -> 12
      [] pc = "done" -> 13

\* the call returned None without an exception
Skipped(t) == t.pc = "done" /\ t.result.kind = "None" /\ t.raised = "none"

\* C20: gating before transforms.  The steps of a call run in the order
\* ledger check, duplicate check, curation, enhance, watermark, face-blur;
\* a call reaches enhance only from the curation step with a keep verdict;
\* a call that skips its file (already processed, duplicate, rejected)
\* returns from one of the three gates, before any transform, without an
\* output path, and the step that skips leaves outputs, sidecars and the
\* ledger unchanged; these are written only by a call past the transforms.
C20_GatingBeforeTransforms ==
    [][/\ \A i \in 1..Len(tasks) :
            LET t == tasks[i]  u == tasks'[i] IN
            /\ u.pc # t.pc =>
                 \/ StepRank(u.pc) = StepRank(t.pc) + 1
                 \/ u.pc = "done"
            /\ (u.pc = "enhance" /\ t.pc # "enhance") =>
                 /\ t.pc = "score"
                 /\ should_keep_image(ScoresOf(ContentOf(t.path)))[1]
            /\ (Skipped(u) /\ ~Skipped(t)) =>
                 /\ t.pc \in {"hash", "dup_scan", "score"}
                 /\ u.out = NoPath
                 /\ UNCHANGED <<disk, sidecars, ledger>>
       /\ (disk' # disk \/ sidecars' # sidecars \/ ledger' # ledger) =>
            \E i \in 1..Len(tasks) :
                /\ tasks[i].pc \in {"save", "sidecar", "mark"}
                /\ tasks'[i].pc # tasks[i].pc]_vars

\* a file rejected by curation, a duplicate of a kept file, and nothing
\* written for the rejected one
C20_Witness ==
    \E i \in 1..Len(tasks) :
        /\ Skipped(tasks[i])
        /\ ~should_keep_image(ScoresOf(ContentOf(tasks[i].path)))[1]
        /\ PHashOf(ContentOf(tasks[i].path)) \in seen_hashes
        /\ tasks[i].out = NoPath
        /\ \A q \in DOMAIN disk : disk[q] # ContentOf(tasks[i].path)
        /\ compute_sha256(tasks[i].path) \notin DOMAIN ledger

(***************************************************************************)
(* Further claims about the token buckets                                  *)
(***************************************************************************)
\* C21: token range.  In every reachable state of either bucket, after any
\* sequence of refills and acquires with any elapsed times, the token count
\* lies between 0 and the capacity.
C21_TokenRange ==
    /\ 0 <= lim.tokens /\ lim.tokens <= lim.capacity
    /\ 0 <= bucket.tokens /\ bucket.tokens <= bucket.BG_REQS_PER_MIN

\* a refill that met the cap in the limiter, and an acquire refused at the
\* floor in the handler's bucket
C21_Witness ==
    /\ limLast.op = "acquire" /\ lim.capacity = 2
    /\ limLast.tokens_before = 1 /\ limLast.tokens_refilled = 2
    /\ bucketLast.op = "consume" /\ bucketLast.result = FALSE /\ bucket.tokens = 0

\* C22: the limiter under concurrent acquire calls.  In every interleaving
\* the number of successful acquires is at most the initial tokens plus the
\* tokens refilled for the time elapsed since construction: no decrement is
\* lost and no interval is credited twice.
C22_NoOverAdmission ==
    acq.granted <= lim.capacity + RefillAmount(now, lim.capacity)

(***************************************************************************)
(* Claims about process_file under process_batch workers and re-runs       *)
(***************************************************************************)
PHashOfTask(i) == PHashOf(ContentOf(tasks[i].path))

\* C23: the duplicate index under concurrency.  Of two files of one batch
\* whose perceptual hashes are within the threshold (byte-identical files
\* included) at most one is kept, in every interleaving of the workers.
C23_ConcurrentDuplicates ==
    \A i, j \in TaskIds :
        (i # j /\ InBatch(i) /\ InBatch(j) /\ Kept(i) /\ Kept(j))
        => ~is_duplicate(PHashOfTask(i), PHashOfTask(j))

\* C24: output path disambiguation.  Two distinct kept files never share an
\* output path, also when process_batch workers process them concurrently.
C24_DistinctOutputPaths ==
    \A i, j \in TaskIds :
        (Kept(i) /\ Kept(j) /\ tasks[i].path # tasks[j].path)
        => tasks[i].result.path # tasks[j].result.path

\* C25: ledger records are immutable.  A record, once inserted, is never
\* removed and none of its fields is ever replaced.
C25_RecordImmutable ==
    [][\A h \in DOMAIN ledger : h \in DOMAIN ledger' /\ ledger'[h] = ledger[h]]_vars

\* C28: re-entrant recovery.  When a direct call failed after its output
\* file was written and before mark_processed, a later fault-free call on
\* the same bytes reprocesses the file: it returns a path, that path is the
\* one the failed call wrote, and the hash is in the ledger.
C28_ReentrantRecovery ==
    \A i, j \in TaskIds :
        (/\ i < j /\ Done(i) /\ Done(j) /\ ~face_blur_enabled
         /\ tasks[i].via = "direct" /\ tasks[j].via = "direct"
         /\ Faulted(i) /\ tasks[i].saved
         /\ tasks[j].path = tasks[i].path
         /\ ~Faulted(j))
        => /\ Kept(j)
           /\ tasks[j].result.path = tasks[i].out
           /\ is_processed(ledger, compute_sha256(tasks[j].path))

\* C29: the duplicate index holds accepted hashes only.  When no call is
\* in progress, every registered perceptual hash is the hash of a file for
\* which process_file returned an output path.
C29_IndexHoldsAcceptedOnly ==
    AllQuiet => \A h \in seen_hashes : \E i \in TaskIds : Kept(i) /\ PHashOfTask(i) = h

(***************************************************************************)
(* Further claims about the /background/replace handler                    *)
(***************************************************************************)
\* C26: one-way fallback.  In one request the remote engine is tried at
\* most once and never after the local engine; the local engine was invoked
\* exactly when it appears among the engines tried, so a failure of the
\* local engine (selected, or the fallback target) ends the request with no
\* remote attempt after it.
C26_OneWayFallback ==
    Answered =>
        LET a == Last.attempts IN
        /\ Cardinality({k \in DOMAIN a : a[k] = "runway"}) <= 1
        /\ \A k, m \in DOMAIN a : (a[k] = "sdxl" /\ m > k) => a[m] # "runway"
        /\ Last.local_invoked <=> (\E k \in DOMAIN a : a[k] = "sdxl")
        /\ Last.reason = "sdxl" => a[Len(a)] = "sdxl"

\* the remote engine failed, the fallback ran the local engine, and the
\* local engine failed too: the request ended in a 500
C26_Witness ==
    /\ Answered /\ env.bg_engine = "runway" /\ env.BG_FALLBACK_LOCAL
    /\ Last.attempts = <<"runway", "sdxl">>
    /\ Last.reason = "sdxl" /\ Last.response.status = 500

(***************************************************************************)
(* Further claims about RunwayAdapter._poll_task_status                    *)
(***************************************************************************)
\* C27: transient polling errors have no retry budget.  A transport error
\* only makes the call sleep 5 s (2 s after PENDING or RUNNING) before the
\* next loop test and never ends the call by itself; a call that ends just
\* after a transport error ends by the loop test, raising TimeoutError; a
\* SUCCEEDED answer is returned whatever number of transport errors came
\* before it; and every call ends.
C27_NoRetryBudget ==
    /\ [][poll'.errors > poll.errors =>
            (poll'.pc = "sleep" /\ poll'.nap = PollSleepError)]_vars
    /\ [][(poll'.sent # poll.sent /\ poll'.last \in {"PENDING", "RUNNING"}) =>
            (poll'.pc = "sleep" /\ poll'.nap = PollSleepStatus)]_vars
    /\ []((poll.pc = "done" /\ poll.last = "RequestException")
            => (poll.outcome = "TimeoutError" /\ poll.t >= poll.max_wait_time))
    /\ []((poll.last = "SUCCEEDED" /\ poll.errors > 0)
            => (poll.pc = "done" /\ poll.outcome = "return"))
    /\ (poll.pc \notin {"idle", "done"}) ~> (poll.pc = "done")

\* the first call of the model met two transport errors in a row and then
\* a SUCCEEDED answer inside the budget, which it returned
C27_Witness ==
    /\ poll.pc = "done" /\ poll.outcome = "return" /\ poll.calls = 1
    /\ poll.errors = 2 /\ poll.sent = 3
    /\ poll.t < poll.max_wait_time

(***************************************************************************)
(* Claims about BackgroundClient._make_request                             *)
(***************************************************************************)
\* C30: retry bound.  For any configured retry_attempts a call sends at
\* most retry_attempts POST requests; it goes on to another attempt only
\* after a timeout, a connection error or an unexpected exception, never
\* after a non-200 answer or a 200 answer with success false; and it ends
\* by returning a success result or by raising BackgroundClientError, never
\* by returning nothing.
C30_RetryBound ==
    /\ bgc.posts <= bgc.retry_attempts
    /\ bgc.pc = "wait" => bgc.last \in {"Timeout", "ConnectionError", "Exception"}
    /\ bgc.last \in {"non200", "success_false"} =>
          (bgc.pc = "done" /\ bgc.outcome = "BackgroundClientError")
    /\ bgc.pc = "done" => bgc.outcome \in {"return", "BackgroundClientError"}

====
